---- MODULE Spec2Model ----
(***************************************************************************)
(* Model of the hashcat table-attack generator (src/main.go, v0.2 part,    *)
(* lines 145-583): the four variant generators, generateCombinations and   *)
(* the dispatch pipeline of main.                                          *)
(*                                                                         *)
(* A Go string is modelled as a sequence of one-character strings, a Go    *)
(* map[string][]string as a set of entries [key, subs] with distinct keys, *)
(* a map[string]string as a set of entries [key, sub].                     *)
(***************************************************************************)
EXTENDS Integers, Sequences, FiniteSets

(* ------------------------------ bounds -------------------------------- *)

\* longest dictionary word drawn
MaxWordLen == 3
\* largest value drawn for --table-min and --table-max
MaxSub == 3
\* largest n and k drawn for a direct call of generateCombinations
MaxN == 4
\* dictionary lines in the pipeline model
MaxWords == 2
\* largest --threads value drawn
MaxThreads == 2
\* most variants one worker pushes in the pipeline model
MaxVariants == 1
\* capacity of outputChan in the pipeline model (the program uses 1000)
ChanCap == 1

(* ------------------------------ inputs -------------------------------- *)

Alphabet == {"f", "o"}

RECURSIVE WordsOfLen(_)
WordsOfLen(n) ==
    IF n = 0 THEN {<<>>}
    ELSE {<<c>> \o w : c \in Alphabet, w \in WordsOfLen(n - 1)}

Words == UNION {WordsOfLen(n) : n \in 0..MaxWordLen}

Entry(k, s) == [key |-> k, subs |-> s]

\* no table line at all
TEmpty == {}
\* o=0
TLeet == {Entry(<<"o">>, << <<"0">> >>)}
\* o=00, o=0, f=o : several options, a longer replacement, a replacement
\* that is itself a pattern
TMulti == {Entry(<<"o">>, << <<"0", "0">>, <<"0">> >>), Entry(<<"f">>, << <<"o">> >>)}
\* oo=0, o= : overlapping patterns, shorter and empty replacements
TShort == {Entry(<<"o", "o">>, << <<"0">> >>), Entry(<<"o">>, << <<>> >>)}
\* a key whose replacement list is empty, next to o=0
TNoSubs == {Entry(<<"f">>, <<>>), Entry(<<"o">>, << <<"0">> >>)}
\* f=oo, o=0 : the inserted bytes contain a pattern
TLong == {Entry(<<"f">>, << <<"o", "o">> >>), Entry(<<"o">>, << <<"0">> >>)}

Tables == {TEmpty, TLeet, TMulti, TShort, TNoSubs, TLong}

Modes == {"processWord", "processWordReverse", "processWordSubstituteAll",
          "processWordSubstituteAllReverse", "generateCombinations"}

(* --------------------------- Go primitives ---------------------------- *)

\* s[a:b] with 0-based, half-open bounds
Slice(s, a, b) == SubSeq(s, a + 1, b)

\* s[a:b] is in range
SliceOK(s, a, b) == 0 <= a /\ a <= b /\ b <= Len(s)

\* _, ok := subMap[key]
HasKey(subMap, key) == \E e \in subMap : e.key = key

\* subMap[key] (nil, hence empty, for a missing key)
Lookup(subMap, key) ==
    IF HasKey(subMap, key) THEN (CHOOSE e \in subMap : e.key = key).subs ELSE <<>>

Ord(c) == CASE c = "0" -> 48 [] c = "f" -> 102 [] c = "o" -> 111

\* a < b for Go strings (bytewise lexicographic)
RECURSIVE StrLess(_, _)
StrLess(a, b) ==
    IF b = <<>> THEN FALSE
    ELSE IF a = <<>> THEN TRUE
    ELSE IF Ord(Head(a)) # Ord(Head(b)) THEN Ord(Head(a)) < Ord(Head(b))
    ELSE StrLess(Tail(a), Tail(b))

\* sort.Strings of the elements of a set
RECURSIVE SortStrings(_)
SortStrings(S) ==
    IF S = {} THEN <<>>
    ELSE LET m == CHOOSE x \in S : \A y \in S \ {x} : StrLess(x, y)
         IN <<m>> \o SortStrings(S \ {m})

\* strings.ReplaceAll(s, old, new) for a non-empty old, scanning from byte i
RECURSIVE ReplaceFrom(_, _, _, _)
ReplaceFrom(s, old, new, i) ==
    IF i >= Len(s) THEN <<>>
    ELSE IF i + Len(old) <= Len(s) /\ Slice(s, i, i + Len(old)) = old
         THEN new \o ReplaceFrom(s, old, new, i + Len(old))
         ELSE <<s[i + 1]>> \o ReplaceFrom(s, old, new, i + 1)

ReplaceAll(s, old, new) == ReplaceFrom(s, old, new, 0)

(* ----------------------------- processWord ---------------------------- *)

\* lines 313-315
EffectiveMin(minSubstitute) ==
    IF minSubstitute = 0 THEN minSubstitute + 1 ELSE minSubstitute

NextStartSkipOne(i, sub) == i + 1

\* line 341: the cursor passed to the recursive call
NextStart(i, sub) == i + Len(sub)

\* line 336
ReachedMin(newSubCount, minSubstitute) == newSubCount >= minSubstitute

\* lines 318-346: the sends of generate(currentWord, currentSubCount, start),
\* in order; c holds the captured subMap, minSubstitute and maxSubstitute.
\* path is not in the program: it lists the replacements that led to
\* currentWord, each as [i, keyLength, opt, subLen], for the properties below
RECURSIVE generate(_, _, _, _, _), generateKeys(_, _, _, _, _, _),
          generateSubs(_, _, _, _, _, _, _)
generate(c, currentWord, currentSubCount, start, path) ==
    IF start >= Len(currentWord) THEN <<>>
    ELSE generateKeys(c, currentWord, currentSubCount, start, Len(currentWord) - start, path)
         \o generate(c, currentWord, currentSubCount, start + 1, path)

\* lines 321-344: the loop over keyLength at position i
generateKeys(c, currentWord, currentSubCount, i, keyLength, path) ==
    IF keyLength < 1 THEN <<>>
    ELSE (IF i + keyLength > Len(currentWord) THEN <<>>
          ELSE IF HasKey(c.subMap, Slice(currentWord, i, i + keyLength))
               THEN generateSubs(c, currentWord, currentSubCount, i, keyLength, 1, path)
               ELSE <<>>)
         \o generateKeys(c, currentWord, currentSubCount, i, keyLength - 1, path)

\* lines 328-342: the loop over the replacement options, from option j
generateSubs(c, currentWord, currentSubCount, i, keyLength, j, path) ==
    LET subs == Lookup(c.subMap, Slice(currentWord, i, i + keyLength))
    IN IF j > Len(subs) THEN <<>>
       ELSE LET sub == subs[j]
                newWord == Slice(currentWord, 0, i) \o sub
                           \o Slice(currentWord, i + keyLength, Len(currentWord))
                newSubCount == currentSubCount + 1
                newPath == Append(path, [i |-> i, keyLength |-> keyLength, opt |-> j,
                                         subLen |-> Len(sub)])
            IN (IF newSubCount > c.maxSubstitute THEN <<>>
                ELSE (IF ReachedMin(newSubCount, c.minSubstitute)
                      THEN <<[w |-> newWord, n |-> newSubCount, sel |-> newPath]>>
                      ELSE <<>>)
                     \o generate(c, newWord, newSubCount, NextStart(i, sub), newPath))
               \o generateSubs(c, currentWord, currentSubCount, i, keyLength, j + 1, path)

\* lines 312-349
processWord(word, subMap, minSubstitute, maxSubstitute) ==
    generate([subMap |-> subMap, minSubstitute |-> EffectiveMin(minSubstitute),
              maxSubstitute |-> maxSubstitute], word, 0, 0, <<>>)

(* ------------------------ generateCombinations ------------------------ *)

PrependLast(i, sub) == sub \o <<i>>

\* line 420: append([]int{i}, sub...)
Prepend(i, sub) == <<i>> \o sub

\* line 420-421 over every sub of subCombos, from element j
RECURSIVE PrependEach(_, _, _)
PrependEach(i, subCombos, j) ==
    IF j > Len(subCombos) THEN <<>>
    ELSE <<Prepend(i, subCombos[j])>> \o PrependEach(i, subCombos, j + 1)

\* lines 407-425; combinationsFrom is the loop of lines 417-423 from index i
RECURSIVE generateCombinations(_, _), combinationsFrom(_, _)
generateCombinations(n, k) ==
    IF k = 0 THEN << <<>> >>
    ELSE IF n < k THEN <<>>
    ELSE combinationsFrom(n - 1, k)

combinationsFrom(i, k) ==
    IF i < k - 1 THEN <<>>
    ELSE PrependEach(i, generateCombinations(i, k - 1), 1) \o combinationsFrom(i - 1, k)

(* -------------------------- processWordReverse ------------------------ *)

\* lines 359-369: the occurrences found at offset i, keyLength ascending
RECURSIVE positionsAt(_, _, _, _)
positionsAt(word, subMap, i, keyLength) ==
    IF keyLength > Len(word) - i THEN <<>>
    ELSE (IF HasKey(subMap, Slice(word, i, i + keyLength))
          THEN <<[start |-> i, keyLength |-> keyLength,
                  subs |-> Lookup(subMap, Slice(word, i, i + keyLength))]>>
          ELSE <<>>)
         \o positionsAt(word, subMap, i, keyLength + 1)

\* lines 354-369: positions, offsets ascending from i
RECURSIVE positionsFrom(_, _, _)
positionsFrom(word, subMap, i) ==
    IF i >= Len(word) THEN <<>>
    ELSE positionsAt(word, subMap, i, 1) \o positionsFrom(word, subMap, i + 1)

findPositions(word, subMap) == positionsFrom(word, subMap, 0)

ActualMaxUnclamped(maxSubstitute, totalPossible) == totalPossible

\* lines 376-379
ActualMax(maxSubstitute, totalPossible) ==
    IF maxSubstitute > totalPossible THEN totalPossible ELSE maxSubstitute

\* lines 432-436: the intervals of a combo, in combo order
intervalsOf(combo, positions) ==
    [i \in 1..Len(combo) |->
        LET pos == positions[combo[i] + 1]
        IN <<pos.start, pos.start + pos.keyLength - 1>>]

\* lines 439-441: sort.Slice by start offset; the order sort.Slice leaves
\* equal starts in does not matter to the test of lines 443-447, which
\* rejects two neighbours with equal starts in either order
RECURSIVE SortByStart(_)
SortByStart(S) ==
    IF S = {} THEN <<>>
    ELSE LET m == CHOOSE x \in S : \A y \in S : x[1] < y[1] \/ (x[1] = y[1] /\ x[2] <= y[2])
         IN <<m>> \o SortByStart(S \ {m})

\* lines 427-449; the indices of a combo are distinct, and so are the
\* intervals of distinct positions
validSubstitutionPositions(combo, positions) ==
    LET unsorted == intervalsOf(combo, positions)
        intervals == SortByStart({unsorted[i] : i \in 1..Len(unsorted)})
    IN \A i \in 2..Len(intervals) : ~(intervals[i][1] <= intervals[i - 1][2])

\* lines 386-390: the combos of one subCount that pass the overlap test
RECURSIVE validCombos(_, _, _, _)
validCombos(combinations, positions, subCount, j) ==
    IF j > Len(combinations) THEN <<>>
    ELSE (IF validSubstitutionPositions(combinations[j], positions)
          THEN <<[combo |-> combinations[j], n |-> subCount]>>
          ELSE <<>>)
         \o validCombos(combinations, positions, subCount, j + 1)

\* lines 382-404: the loop over subCount, descending
RECURSIVE reverseLoop(_, _, _)
reverseLoop(positions, subCount, minSubstitute) ==
    IF subCount < minSubstitute THEN <<>>
    ELSE validCombos(generateCombinations(Len(positions), subCount), positions, subCount, 1)
         \o reverseLoop(positions, subCount - 1, minSubstitute)

\* lines 352-404 without the body of lines 393-402: the combos that reach
\* line 392, in order
processWordReverse(word, subMap, minSubstitute, maxSubstitute) ==
    LET positions == findPositions(word, subMap)
        totalPossible == Len(positions)
    IN IF totalPossible < minSubstitute THEN <<>>
       ELSE reverseLoop(positions, ActualMax(maxSubstitute, totalPossible), minSubstitute)

\* lines 396-400: one iteration; acc is [result, offset, ok], ok = FALSE once
\* an index or a slice bound was out of range (a run-time panic)
applyPosition(acc, pos) ==
    IF ~acc.ok THEN acc
    ELSE IF Len(pos.subs) = 0 THEN [acc EXCEPT !.ok = FALSE]
    ELSE LET sub == pos.subs[1]
             actualStart == pos.start + acc.offset
         IN IF ~SliceOK(acc.result, 0, actualStart)
               \/ ~SliceOK(acc.result, actualStart + pos.keyLength, Len(acc.result))
            THEN [acc EXCEPT !.ok = FALSE]
            ELSE [result |-> Slice(acc.result, 0, actualStart) \o sub
                             \o Slice(acc.result, actualStart + pos.keyLength, Len(acc.result)),
                  offset |-> acc.offset + (Len(sub) - pos.keyLength),
                  ok |-> TRUE]

\* lines 393-401: the loop over combo, from element j
RECURSIVE applyCombo(_, _, _, _)
applyCombo(acc, combo, positions, j) ==
    IF j > Len(combo) THEN acc
    ELSE applyCombo(applyPosition(acc, positions[combo[j] + 1]), combo, positions, j + 1)

(* ----------------------- processWordSubstituteAll --------------------- *)

\* lines 454-463 (and 515-523)
uniquePatterns(word, subMap) ==
    {e.key : e \in {e \in subMap :
        \E i \in 0..(Len(word) - 1) :
            i + Len(e.key) <= Len(word) /\ Slice(word, i, i + Len(e.key)) = e.key}}

\* lines 466-470 (and 525-529)
sortedPatterns(word, subMap) == SortStrings(uniquePatterns(word, subMap))

\* newSubs[k] = v on a copy of m
MapPut(m, k, v) == {e \in m : e.key # k} \cup {[key |-> k, sub |-> v]}

\* lines 476-479
InBounds(subCount, minSubstitute, maxSubstitute) ==
    ~(subCount < minSubstitute \/ subCount > maxSubstitute)

\* lines 474-505: the maps that reach line 481, in order; c holds the
\* captured subMap, patterns, minSubstitute and maxSubstitute
RECURSIVE generateAll(_, _, _), generateAllSubs(_, _, _, _)
generateAll(c, currentSubs, pos) ==
    IF pos >= Len(c.patterns)
    THEN IF InBounds(Cardinality(currentSubs), c.minSubstitute, c.maxSubstitute)
         THEN <<[subs |-> currentSubs, n |-> Cardinality(currentSubs)]>>
         ELSE <<>>
    ELSE generateAllSubs(c, currentSubs, pos, 1) \o generateAll(c, currentSubs, pos + 1)

\* lines 493-501: the loop over the options of patterns[pos], from option j
generateAllSubs(c, currentSubs, pos, j) ==
    LET currentPattern == c.patterns[pos + 1]
        subs == Lookup(c.subMap, currentPattern)
    IN IF j > Len(subs) THEN <<>>
       ELSE generateAll(c, MapPut(currentSubs, currentPattern, subs[j]), pos + 1)
            \o generateAllSubs(c, currentSubs, pos, j + 1)

\* lines 452-509 without the body of lines 482-486
processWordSubstituteAll(word, subMap, minSubstitute, maxSubstitute) ==
    generateAll([subMap |-> subMap, patterns |-> sortedPatterns(word, subMap),
                 minSubstitute |-> minSubstitute, maxSubstitute |-> maxSubstitute], {}, 0)

\* lines 482-485 (and 554-557): the ReplaceAll steps in the order the range
\* over the map yields its entries, from entry j
RECURSIVE applyInOrder(_, _, _)
applyInOrder(result, order, j) ==
    IF j > Len(order) THEN result
    ELSE applyInOrder(ReplaceAll(result, order[j].key, order[j].sub), order, j + 1)

\* the orders in which a range over a Go map may yield its entries
MapOrders(m) ==
    {f \in [1..Cardinality(m) -> m] : \A a, b \in 1..Cardinality(m) : a # b => f[a] # f[b]}

(* -------------------- processWordSubstituteAllReverse ----------------- *)

\* lines 537-542
allSubsOf(patterns, subMap) ==
    {[key |-> patterns[i], sub |-> Lookup(subMap, patterns[i])[1]] :
        i \in {i \in 1..Len(patterns) :
                 HasKey(subMap, patterns[i]) /\ Len(Lookup(subMap, patterns[i])) > 0}}

\* lines 546-581: the maps that reach line 553, in order
RECURSIVE generateSubsets(_, _, _), generateSubsetsFrom(_, _, _)
generateSubsets(c, currentSubs, pos) ==
    LET currentCount == Cardinality(currentSubs)
    IN IF currentCount < c.minSubstitute THEN <<>>
       ELSE (IF currentCount <= c.maxSubstitute
             THEN <<[subs |-> currentSubs, n |-> currentCount]>>
             ELSE <<>>)
            \o (IF currentCount <= c.minSubstitute THEN <<>>
                ELSE generateSubsetsFrom(c, currentSubs, pos))

\* lines 567-580: the loop from index i
generateSubsetsFrom(c, currentSubs, i) ==
    IF i >= Len(c.patterns) THEN <<>>
    ELSE (IF ~(\E e \in currentSubs : e.key = c.patterns[i + 1]) THEN <<>>
          ELSE generateSubsets(c, {e \in currentSubs : e.key # c.patterns[i + 1]}, i + 1))
         \o generateSubsetsFrom(c, currentSubs, i + 1)

\* lines 513-584 without the body of lines 554-558
processWordSubstituteAllReverse(word, subMap, minSubstitute, maxSubstitute) ==
    LET patterns == sortedPatterns(word, subMap)
        totalPossible == Len(patterns)
    IN IF totalPossible < minSubstitute THEN <<>>
       ELSE generateSubsets([patterns |-> patterns, minSubstitute |-> minSubstitute,
                             maxSubstitute |-> maxSubstitute],
                            allSubsOf(patterns, subMap), 0)

(* ------------------------------- state -------------------------------- *)

VARIABLES
    mode,           \* the function under call
    word,           \* its word argument
    subMap,         \* the substitution table
    minSubstitute,  \* cli.TableMin
    maxSubstitute,  \* cli.TableMax
    combN, combK,   \* the arguments of a direct call of generateCombinations
    combos,         \* its return value
    pc,             \* "call", "run" (between two sends), "done" or "panic"
    pending,        \* what the call has still to send, in order
    out,            \* what was sent on the out channel, in order, each with
                    \* the substitution count and the selection it came from
    threads,        \* cli.Threads
    numWords,       \* lines of the dictionary
    nVariants,      \* per word, how many variants its generation sends
    mainPc,         \* position of main in lines 213-243
    scanned,        \* words read by the scanner so far
    sem,            \* len(sem)
    wg,             \* counter of wg
    writerWg,       \* counter of writerWg
    worker,         \* per word, the position of its goroutine
    sent,           \* per word, how many variants its goroutine has sent
    outputChan,     \* buffered content of outputChan
    closed,         \* outputChan was closed
    sinkPc,         \* position of the writer goroutine
    buffered,       \* written to the bufio.Writer, not yet flushed
    flushed,        \* flushed to os.Stdout
    crashed         \* "no"; "fatal" once a panicking goroutine has run its deferred
                    \* calls; "dead" once the runtime has ended the process

genVars == <<mode, word, subMap, minSubstitute, maxSubstitute, combN, combK, combos,
             pc, pending, out>>

pipeVars == <<threads, numWords, nVariants, mainPc, scanned, sem, wg, writerWg, worker,
              sent, outputChan, closed, sinkPc, buffered, flushed, crashed>>

vars == <<genVars, pipeVars>>

WordIds == 1..MaxWords

\* the pipeline before main runs
PipeOff ==
    /\ threads = 0 /\ numWords = 0 /\ nVariants = [w \in WordIds |-> 0]
    /\ mainPc = "off" /\ scanned = 0 /\ sem = 0 /\ wg = 0 /\ writerWg = 0
    /\ worker = [w \in WordIds |-> "none"] /\ sent = [w \in WordIds |-> 0]
    /\ outputChan = <<>> /\ closed = FALSE /\ sinkPc = "off"
    /\ buffered = <<>> /\ flushed = <<>> /\ crashed = "no"

\* no generator under call
GenOff ==
    /\ mode = "off" /\ word = <<>> /\ subMap = {} /\ minSubstitute = 0 /\ maxSubstitute = 0
    /\ combN = 0 /\ combK = 0 /\ combos = <<>> /\ pc = "off" /\ pending = <<>> /\ out = <<>>

(* ------------------- the generators, one send per step ---------------- *)

\* a call of one of the four generators, or of generateCombinations, on
\* arguments drawn from the bounded sets
Init ==
    /\ mode \in Modes
    /\ IF mode = "generateCombinations"
       THEN /\ combN \in 0..MaxN /\ combK \in 0..(MaxN + 1)
            /\ word = <<>> /\ subMap = {} /\ minSubstitute = 0 /\ maxSubstitute = 0
       ELSE /\ combN = 0 /\ combK = 0
            /\ word \in Words /\ subMap \in Tables
            /\ minSubstitute \in 0..MaxSub /\ maxSubstitute \in 0..MaxSub
    /\ combos = <<>> /\ pc = "call" /\ pending = <<>> /\ out = <<>>
    /\ PipeOff

\* lines 312-349 up to the first send
CallProcessWord ==
    /\ pc = "call" /\ mode = "processWord"
    /\ pending' = processWord(word, subMap, minSubstitute, maxSubstitute)
    /\ pc' = "run"
    /\ UNCHANGED <<mode, word, subMap, minSubstitute, maxSubstitute, combN, combK, combos, out>>
    /\ UNCHANGED pipeVars

\* line 337: out <- newWord
SendWord ==
    /\ pc = "run" /\ mode = "processWord" /\ pending # <<>>
    /\ out' = Append(out, Head(pending))
    /\ pending' = Tail(pending)
    /\ UNCHANGED <<mode, word, subMap, minSubstitute, maxSubstitute, combN, combK, combos, pc>>
    /\ UNCHANGED pipeVars

\* lines 352-390 up to the first combo that passes the overlap test
CallProcessWordReverse ==
    /\ pc = "call" /\ mode = "processWordReverse"
    /\ pending' = processWordReverse(word, subMap, minSubstitute, maxSubstitute)
    /\ pc' = "run"
    /\ UNCHANGED <<mode, word, subMap, minSubstitute, maxSubstitute, combN, combK, combos, out>>
    /\ UNCHANGED pipeVars

\* lines 393-402: compose the variant of the next combo and send it, or panic
SendReverse ==
    /\ pc = "run" /\ mode = "processWordReverse" /\ pending # <<>>
    /\ LET task == Head(pending)
           acc == applyCombo([result |-> word, offset |-> 0, ok |-> TRUE], task.combo,
                             findPositions(word, subMap), 1)
       IN IF acc.ok
          THEN /\ out' = Append(out, [w |-> acc.result, n |-> task.n, sel |-> task.combo])
               /\ pending' = Tail(pending)
               /\ pc' = pc
          ELSE /\ pc' = "panic"
               /\ UNCHANGED <<out, pending>>
    /\ UNCHANGED <<mode, word, subMap, minSubstitute, maxSubstitute, combN, combK, combos>>
    /\ UNCHANGED pipeVars

\* lines 452-481 up to the first leaf within the bounds
CallProcessWordSubstituteAll ==
    /\ pc = "call" /\ mode = "processWordSubstituteAll"
    /\ pending' = processWordSubstituteAll(word, subMap, minSubstitute, maxSubstitute)
    /\ pc' = "run"
    /\ UNCHANGED <<mode, word, subMap, minSubstitute, maxSubstitute, combN, combK, combos, out>>
    /\ UNCHANGED pipeVars

\* lines 513-553 up to the first subset within the bounds
CallProcessWordSubstituteAllReverse ==
    /\ pc = "call" /\ mode = "processWordSubstituteAllReverse"
    /\ pending' = processWordSubstituteAllReverse(word, subMap, minSubstitute, maxSubstitute)
    /\ pc' = "run"
    /\ UNCHANGED <<mode, word, subMap, minSubstitute, maxSubstitute, combN, combK, combos, out>>
    /\ UNCHANGED pipeVars

\* lines 482-486 and 554-558: replace all, pattern by pattern in the order
\* the range over the map yields them, and send
SendSubstituteAll ==
    /\ pc = "run" /\ mode \in {"processWordSubstituteAll", "processWordSubstituteAllReverse"}
    /\ pending # <<>>
    /\ LET task == Head(pending)
       IN \E order \in MapOrders(task.subs) :
            out' = Append(out, [w |-> applyInOrder(word, order, 1), n |-> task.n,
                                sel |-> task.subs])
    /\ pending' = Tail(pending)
    /\ UNCHANGED <<mode, word, subMap, minSubstitute, maxSubstitute, combN, combK, combos, pc>>
    /\ UNCHANGED pipeVars

\* the generator returns
Return ==
    /\ pc = "run" /\ pending = <<>>
    /\ pc' = "done"
    /\ UNCHANGED <<mode, word, subMap, minSubstitute, maxSubstitute, combN, combK, combos,
                   pending, out>>
    /\ UNCHANGED pipeVars

\* lines 407-425
CallGenerateCombinations ==
    /\ pc = "call" /\ mode = "generateCombinations"
    /\ combos' = generateCombinations(combN, combK)
    /\ pc' = "done"
    /\ UNCHANGED <<mode, word, subMap, minSubstitute, maxSubstitute, combN, combK, pending, out>>
    /\ UNCHANGED pipeVars

Next ==
    \/ CallProcessWord
    \/ SendWord
    \/ CallProcessWordReverse
    \/ SendReverse
    \/ CallProcessWordSubstituteAll
    \/ CallProcessWordSubstituteAllReverse
    \/ SendSubstituteAll
    \/ Return
    \/ CallGenerateCombinations

Spec == Init /\ [][Next]_vars

(* ------------------------ the dispatch pipeline ----------------------- *)

\* main at line 202, before the writer goroutine and the scan loop, for a
\* dictionary, a thread count and per-word variant counts drawn from the
\* bounded sets
PipeInit ==
    /\ GenOff
    /\ threads \in 0..MaxThreads
    /\ numWords \in 0..MaxWords
    /\ nVariants \in [WordIds -> 0..MaxVariants]
    /\ \A w \in WordIds : w > numWords => nVariants[w] = 0
    /\ mainPc = "scan" /\ scanned = 0 /\ sem = 0 /\ wg = 0 /\ writerWg = 1
    /\ worker = [w \in WordIds |-> "none"] /\ sent = [w \in WordIds |-> 0]
    /\ outputChan = <<>> /\ closed = FALSE /\ sinkPc = "range"
    /\ buffered = <<>> /\ flushed = <<>> /\ crashed = "no"

\* the process is alive: no panic ended it and main has not called ctx.Exit
Alive == crashed # "dead" /\ mainPc # "exited"

\* line 217: scanner.Scan() yields the next word, or ends the loop
Scan ==
    /\ Alive /\ mainPc = "scan"
    /\ IF scanned < numWords
       THEN /\ scanned' = scanned + 1
            /\ mainPc' = "acquire"
       ELSE /\ mainPc' = "wait"
            /\ UNCHANGED scanned
    /\ UNCHANGED <<threads, numWords, nVariants, sem, wg, writerWg, worker, sent, outputChan,
                   closed, sinkPc, buffered, flushed, crashed>>
    /\ UNCHANGED genVars

PermitFreeAlways(held, capacity) == TRUE

\* lines 214, 219: a send on sem proceeds while the buffer has room
PermitFree(held, capacity) == held < capacity

\* line 219: sem <- struct{}{}
Acquire ==
    /\ Alive /\ mainPc = "acquire"
    /\ PermitFree(sem, threads)
    /\ sem' = sem + 1
    /\ mainPc' = "add"
    /\ UNCHANGED <<threads, numWords, nVariants, scanned, wg, writerWg, worker, sent,
                   outputChan, closed, sinkPc, buffered, flushed, crashed>>
    /\ UNCHANGED genVars

\* line 220: wg.Add(1)
WgAdd ==
    /\ Alive /\ mainPc = "add"
    /\ wg' = wg + 1
    /\ mainPc' = "go"
    /\ UNCHANGED <<threads, numWords, nVariants, scanned, sem, writerWg, worker, sent,
                   outputChan, closed, sinkPc, buffered, flushed, crashed>>
    /\ UNCHANGED genVars

\* lines 221, 237: go func(password string) {...}(word)
Go ==
    /\ Alive /\ mainPc = "go"
    /\ worker' = [worker EXCEPT ![scanned] = "run"]
    /\ mainPc' = "scan"
    /\ UNCHANGED <<threads, numWords, nVariants, scanned, sem, wg, writerWg, sent, outputChan,
                   closed, sinkPc, buffered, flushed, crashed>>
    /\ UNCHANGED genVars

\* lines 224-236: the generator of worker w sends its next variant; a send
\* on a closed channel panics
Push(w) ==
    /\ Alive /\ worker[w] = "run" /\ sent[w] < nVariants[w]
    /\ IF closed
       THEN /\ worker' = [worker EXCEPT ![w] = "panicRelease"]
            /\ UNCHANGED <<outputChan, sent>>
       ELSE /\ Len(outputChan) < ChanCap
            /\ outputChan' = Append(outputChan, <<w, sent[w] + 1>>)
            /\ sent' = [sent EXCEPT ![w] = sent[w] + 1]
            /\ UNCHANGED worker
    /\ UNCHANGED <<threads, numWords, nVariants, mainPc, scanned, sem, wg, writerWg,
                   closed, sinkPc, buffered, flushed, crashed>>
    /\ UNCHANGED genVars

\* lines 224-236: the generator of worker w returns
Generated(w) ==
    /\ Alive /\ worker[w] = "run" /\ sent[w] = nVariants[w]
    /\ worker' = [worker EXCEPT ![w] = "release"]
    /\ UNCHANGED <<threads, numWords, nVariants, mainPc, scanned, sem, wg, writerWg, sent,
                   outputChan, closed, sinkPc, buffered, flushed, crashed>>
    /\ UNCHANGED genVars

\* lines 393-401 under line 232: the generator of worker w panics; the
\* deferred calls of the goroutine still run
GeneratorPanic(w) ==
    /\ Alive /\ worker[w] = "run"
    /\ worker' = [worker EXCEPT ![w] = "panicRelease"]
    /\ UNCHANGED <<threads, numWords, nVariants, mainPc, scanned, sem, wg, writerWg, sent,
                   outputChan, closed, sinkPc, buffered, flushed, crashed>>
    /\ UNCHANGED genVars

\* line 223: the deferred <-sem
Release(w) ==
    /\ Alive /\ worker[w] \in {"release", "panicRelease"}
    /\ sem > 0
    /\ sem' = sem - 1
    /\ worker' = [worker EXCEPT ![w] = IF worker[w] = "release" THEN "wgDone" ELSE "panicWgDone"]
    /\ UNCHANGED <<threads, numWords, nVariants, mainPc, scanned, wg, writerWg, sent,
                   outputChan, closed, sinkPc, buffered, flushed, crashed>>
    /\ UNCHANGED genVars

\* line 222: the deferred wg.Done(), the last deferred call; a panicking
\* goroutine has then nothing left to run but the fatal exit
WgDone(w) ==
    /\ Alive /\ worker[w] \in {"wgDone", "panicWgDone"}
    /\ wg' = wg - 1
    /\ worker' = [worker EXCEPT ![w] = "done"]
    /\ crashed' = IF worker[w] = "panicWgDone" THEN "fatal" ELSE crashed
    /\ UNCHANGED <<threads, numWords, nVariants, mainPc, scanned, sem, writerWg, sent,
                   outputChan, closed, sinkPc, buffered, flushed>>
    /\ UNCHANGED genVars

\* the Go runtime ends the process after an unrecovered panic
Crash ==
    /\ Alive /\ crashed = "fatal"
    /\ crashed' = "dead"
    /\ UNCHANGED <<threads, numWords, nVariants, mainPc, scanned, sem, wg, writerWg, worker,
                   sent, outputChan, closed, sinkPc, buffered, flushed>>
    /\ UNCHANGED genVars

WaitOverAlways(counter) == TRUE

\* lines 240, 242: Wait returns once the counter is zero
WaitOver(counter) == counter = 0

\* line 240: wg.Wait()
Wait ==
    /\ Alive /\ mainPc = "wait"
    /\ WaitOver(wg)
    /\ mainPc' = "close"
    /\ UNCHANGED <<threads, numWords, nVariants, scanned, sem, wg, writerWg, worker, sent,
                   outputChan, closed, sinkPc, buffered, flushed, crashed>>
    /\ UNCHANGED genVars

\* line 241: close(outputChan)
Close ==
    /\ Alive /\ mainPc = "close"
    /\ closed' = TRUE
    /\ mainPc' = "writerWait"
    /\ UNCHANGED <<threads, numWords, nVariants, scanned, sem, wg, writerWg, worker, sent,
                   outputChan, sinkPc, buffered, flushed, crashed>>
    /\ UNCHANGED genVars

\* lines 209-211: the writer receives one variant and writes it to the
\* bufio.Writer, or leaves the loop once the channel is closed and empty
SinkReceive ==
    /\ Alive /\ sinkPc = "range"
    /\ IF outputChan # <<>>
       THEN /\ buffered' = Append(buffered, Head(outputChan))
            /\ outputChan' = Tail(outputChan)
            /\ UNCHANGED sinkPc
       ELSE /\ closed
            /\ sinkPc' = "flush"
            /\ UNCHANGED <<buffered, outputChan>>
    /\ UNCHANGED <<threads, numWords, nVariants, mainPc, scanned, sem, wg, writerWg, worker,
                   sent, closed, flushed, crashed>>
    /\ UNCHANGED genVars

\* line 208: the deferred writer.Flush()
SinkFlush ==
    /\ Alive /\ sinkPc = "flush"
    /\ flushed' = flushed \o buffered
    /\ buffered' = <<>>
    /\ sinkPc' = "writerDone"
    /\ UNCHANGED <<threads, numWords, nVariants, mainPc, scanned, sem, wg, writerWg, worker,
                   sent, outputChan, closed, crashed>>
    /\ UNCHANGED genVars

\* line 206: the deferred writerWg.Done()
SinkDone ==
    /\ Alive /\ sinkPc = "writerDone"
    /\ writerWg' = writerWg - 1
    /\ sinkPc' = "done"
    /\ UNCHANGED <<threads, numWords, nVariants, mainPc, scanned, sem, wg, worker, sent,
                   outputChan, closed, buffered, flushed, crashed>>
    /\ UNCHANGED genVars

\* line 242: writerWg.Wait()
WriterWait ==
    /\ Alive /\ mainPc = "writerWait"
    /\ WaitOver(writerWg)
    /\ mainPc' = "exit"
    /\ UNCHANGED <<threads, numWords, nVariants, scanned, sem, wg, writerWg, worker, sent,
                   outputChan, closed, sinkPc, buffered, flushed, crashed>>
    /\ UNCHANGED genVars

\* line 243: ctx.Exit(0)
Exit ==
    /\ Alive /\ mainPc = "exit"
    /\ mainPc' = "exited"
    /\ UNCHANGED <<threads, numWords, nVariants, scanned, sem, wg, writerWg, worker, sent,
                   outputChan, closed, sinkPc, buffered, flushed, crashed>>
    /\ UNCHANGED genVars

PipeNext ==
    \/ Scan
    \/ Acquire
    \/ WgAdd
    \/ Go
    \/ \E w \in WordIds : Push(w)
    \/ \E w \in WordIds : Generated(w)
    \/ \E w \in WordIds : GeneratorPanic(w)
    \/ \E w \in WordIds : Release(w)
    \/ \E w \in WordIds : WgDone(w)
    \/ Crash
    \/ Wait
    \/ Close
    \/ SinkReceive
    \/ SinkFlush
    \/ SinkDone
    \/ WriterWait
    \/ Exit

SpecPipe == PipeInit /\ [][PipeNext]_vars

(* ---------------------- what the claims speak of ---------------------- *)

Foo == <<"f", "o", "o">>

Generators == {"processWord", "processWordReverse", "processWordSubstituteAll",
               "processWordSubstituteAllReverse"}

\* the words sent so far, in order
OutWords == [i \in 1..Len(out) |-> out[i].w]

\* how often the word v was sent
TimesSent(v) == Cardinality({i \in 1..Len(out) : out[i].w = v})

\* the spans [a, a+l) of the original word
Spans == {sp \in (0..(Len(word) - 1)) \X (1..Len(word)) : sp[1] + sp[2] <= Len(word)}

\* every (span of the original word that matches a key, option of that key)
Occurrences ==
    UNION {{[start |-> sp[1], keyLength |-> sp[2], opt |-> o] :
                o \in 1..Len(Lookup(subMap, Slice(word, sp[1], sp[1] + sp[2])))} : sp \in Spans}

\* two spans of the original word share a byte
Overlap(a, b) ==
    a.start < b.start + b.keyLength /\ b.start < a.start + a.keyLength

NonOverlapping(C) == \A a, b \in C : a # b => ~Overlap(a, b)

\* the original word with each span of C replaced by its option, every
\* other byte kept, built from byte i on
RECURSIVE ComposeFrom(_, _)
ComposeFrom(C, i) ==
    IF i >= Len(word) THEN <<>>
    ELSE IF \E oc \in C : oc.start = i
         THEN LET oc == CHOOSE x \in C : x.start = i
              IN Lookup(subMap, Slice(word, i, i + oc.keyLength))[oc.opt]
                 \o ComposeFrom(C, i + oc.keyLength)
         ELSE <<word[i + 1]>> \o ComposeFrom(C, i + 1)

Compose(C) == ComposeFrom(C, 0)

\* a path of generate in the coordinates of the original word: each
\* replacement shifted back by the length changes made to its left
RECURSIVE ShiftBefore(_, _)
ShiftBefore(path, k) ==
    IF k <= 1 THEN 0
    ELSE ShiftBefore(path, k - 1) + (path[k - 1].subLen - path[k - 1].keyLength)

ChoiceOfPath(path) ==
    {[start |-> path[k].i - ShiftBefore(path, k), keyLength |-> path[k].keyLength,
      opt |-> path[k].opt] : k \in 1..Len(path)}

\* the choices processWord is to emit one variant for
ForwardChoices ==
    {C \in SUBSET Occurrences :
        /\ NonOverlapping(C)
        /\ Cardinality(C) >= (IF minSubstitute > 1 THEN minSubstitute ELSE 1)
        /\ Cardinality(C) <= maxSubstitute}

\* the occurrences a combo of processWordReverse selects, first option each
ChoiceOfCombo(combo) ==
    LET positions == findPositions(word, subMap)
    IN {[start |-> positions[combo[j] + 1].start,
         keyLength |-> positions[combo[j] + 1].keyLength, opt |-> 1] : j \in 1..Len(combo)}

\* the subsets processWordReverse is to emit one variant for
ReverseChoices ==
    LET total == Len(findPositions(word, subMap))
        top == IF maxSubstitute > total THEN total ELSE maxSubstitute
    IN {C \in SUBSET {oc \in Occurrences : oc.opt = 1} :
            NonOverlapping(C) /\ Cardinality(C) >= minSubstitute /\ Cardinality(C) <= top}

\* the original word with every occurrence of every selected pattern
\* replaced by the replacement chosen for it (leftmost, longest pattern
\* first where two selected patterns match at one byte), from byte i on
RECURSIVE ReplaceSelectedFrom(_, _)
ReplaceSelectedFrom(selected, i) ==
    IF i >= Len(word) THEN <<>>
    ELSE LET here == {e \in selected : i + Len(e.key) <= Len(word)
                                       /\ Slice(word, i, i + Len(e.key)) = e.key}
         IN IF here = {} THEN <<word[i + 1]>> \o ReplaceSelectedFrom(selected, i + 1)
            ELSE LET e == CHOOSE x \in here : \A y \in here : Len(y.key) <= Len(x.key)
                 IN e.sub \o ReplaceSelectedFrom(selected, i + Len(e.key))

ReplaceSelected(selected) == ReplaceSelectedFrom(selected, 0)

RECURSIVE Binomial(_, _)
Binomial(n, k) ==
    IF k = 0 THEN 1 ELSE IF n < k THEN 0 ELSE Binomial(n - 1, k - 1) + Binomial(n - 1, k)

AsSet(seq) == {seq[i] : i \in 1..Len(seq)}

(* ------------------------------ claims -------------------------------- *)

\* C1: every variant a generator has sent carries a substitution count within
\* [minSubstitute, maxSubstitute], at least 1 for processWord; the count is
\* the number of replaced spans (occurrence level) or of selected patterns
\* (pattern level).
C1_CountWithinBounds ==
    mode \in Generators =>
        \A i \in 1..Len(out) :
            /\ out[i].n >= minSubstitute
            /\ out[i].n <= maxSubstitute
            /\ mode = "processWord" =>
                 out[i].n >= 1 /\ out[i].n = Cardinality(ChoiceOfPath(out[i].sel))
            /\ mode = "processWordReverse" =>
                 out[i].n = Cardinality(ChoiceOfCombo(out[i].sel))
            /\ mode \in {"processWordSubstituteAll", "processWordSubstituteAllReverse"} =>
                 out[i].n = Cardinality({e.key : e \in out[i].sel})

\* C1 witness: processWordReverse returned after sending variants for a word
\* with more occurrences than maxSubstitute, under a minimum of at least 1.
C1_Witness ==
    /\ mode = "processWordReverse" /\ pc = "done" /\ out # <<>>
    /\ minSubstitute >= 1
    /\ Len(findPositions(word, subMap)) > maxSubstitute
    /\ \E i \in 1..Len(out) : out[i].n = maxSubstitute

\* C2: when processWord has returned, its sends are in one-to-one
\* correspondence with the choices of (pairwise non-overlapping occurrences of
\* the original word, max(min,1) <= k <= max of them, one option each), each
\* send being the original word with the chosen spans replaced; for o=0,
\* "foo", 1, 2 the sends are f0o, fo0, f00, once each.
C2_ForwardExactlyTheChoices ==
    (mode = "processWord" /\ pc = "done") =>
        /\ \A i \in 1..Len(out) :
              /\ ChoiceOfPath(out[i].sel) \in ForwardChoices
              /\ Cardinality(ChoiceOfPath(out[i].sel)) = Len(out[i].sel)
              /\ out[i].w = Compose(ChoiceOfPath(out[i].sel))
        /\ \A i, j \in 1..Len(out) :
              i # j => ChoiceOfPath(out[i].sel) # ChoiceOfPath(out[j].sel)
        /\ \A C \in ForwardChoices : \E i \in 1..Len(out) : ChoiceOfPath(out[i].sel) = C
        /\ (word = Foo /\ subMap = TLeet /\ minSubstitute = 1 /\ maxSubstitute = 2) =>
              /\ Len(out) = 3
              /\ AsSet(OutWords) = {<<"f", "0", "o">>, <<"f", "o", "0">>, <<"f", "0", "0">>}

\* C2 witness: processWord returned for o=0, "foo", 1, 2 with three sends.
C2_Witness ==
    /\ mode = "processWord" /\ pc = "done"
    /\ word = Foo /\ subMap = TLeet /\ minSubstitute = 1 /\ maxSubstitute = 2
    /\ Len(out) = 3

\* C3: every variant processWordReverse sends for a subset of occurrences is
\* the original word with each selected span replaced by the first option of
\* its pattern and every other byte unchanged, and once it has returned every
\* pairwise non-overlapping subset of size min..min(max, occurrences) was sent.
C3_ReverseComposesSelectedSpans ==
    mode = "processWordReverse" =>
        /\ \A i \in 1..Len(out) : out[i].w = Compose(ChoiceOfCombo(out[i].sel))
        /\ pc = "done" =>
              \A C \in ReverseChoices : \E i \in 1..Len(out) : ChoiceOfCombo(out[i].sel) = C

\* C4: every variant a pattern-level generator sends has as count the number
\* of selected patterns and is the original word with every occurrence of
\* every selected pattern replaced by its chosen replacement, in whatever
\* order the map is ranged over; o=0, "foo", 1, 1 sends exactly f00.
C4_PatternLevelReplacesAll ==
    mode \in {"processWordSubstituteAll", "processWordSubstituteAllReverse"} =>
        /\ \A i \in 1..Len(out) :
              /\ out[i].n = Cardinality(out[i].sel)
              /\ out[i].w = ReplaceSelected(out[i].sel)
        /\ (mode = "processWordSubstituteAll" /\ pc = "done" /\ word = Foo /\ subMap = TLeet
            /\ minSubstitute = 1 /\ maxSubstitute = 1) => OutWords = << <<"f", "0", "0">> >>

\* C5: with an empty table no generator sends anything, whatever the bounds.
C5_EmptyTableSendsNothing ==
    (mode \in Generators /\ subMap = {}) => out = <<>>

\* C6: no generator runs into an out-of-range index or slice bound, and no
\* sent variant comes from a key whose replacement list is empty.
C6_NoPanic ==
    mode \in Generators =>
        /\ pc # "panic"
        /\ \A i \in 1..Len(out) :
              /\ mode = "processWordReverse" =>
                    \A oc \in ChoiceOfCombo(out[i].sel) :
                        Len(Lookup(subMap, Slice(word, oc.start, oc.start + oc.keyLength))) > 0
              /\ mode \in {"processWordSubstituteAll", "processWordSubstituteAllReverse"} =>
                    \A e \in out[i].sel : Len(Lookup(subMap, e.key)) > 0

\* C7: in the sends of the two reverse generators the substitution count
\* never rises.
C7_ReverseCountsDescend ==
    mode \in {"processWordReverse", "processWordSubstituteAllReverse"} =>
        \A i, j \in 1..Len(out) : i < j => out[j].n <= out[i].n

\* C10: generateCombinations(n, k) is the one empty subset for k = 0, nothing
\* for k > n, and otherwise every size-k subset of 0..n-1 once, C(n,k) of
\* them, each in strictly descending order; 6 subsets for n = 4, k = 2.
C10_Combinations ==
    (mode = "generateCombinations" /\ pc = "done") =>
        /\ combK = 0 => combos = << <<>> >>
        /\ combK > combN => combos = <<>>
        /\ (1 <= combK /\ combK <= combN) =>
              /\ \A i \in 1..Len(combos) :
                    /\ Len(combos[i]) = combK
                    /\ \A a \in 1..combK : combos[i][a] \in 0..(combN - 1)
                    /\ \A a \in 1..(combK - 1) : combos[i][a] > combos[i][a + 1]
              /\ \A i, j \in 1..Len(combos) : i # j => AsSet(combos[i]) # AsSet(combos[j])
              /\ \A S \in SUBSET (0..(combN - 1)) :
                    Cardinality(S) = combK => \E i \in 1..Len(combos) : AsSet(combos[i]) = S
              /\ Len(combos) = Binomial(combN, combK)
        /\ (combN = 4 /\ combK = 2) => Len(combos) = 6

\* C10 witness: generateCombinations(4, 2) returned six subsets.
C10_Witness ==
    /\ mode = "generateCombinations" /\ pc = "done"
    /\ combN = 4 /\ combK = 2 /\ Len(combos) = 6

\* the variants worker w has pushed so far
PushedBy(w) == {<<w, j>> : j \in 1..sent[w]}

\* workers that were started and have not yet released their permit
InFlight == {w \in WordIds : worker[w] \in {"run", "release", "panicRelease"}}

\* C8: main reaches its exit only after every word was dispatched, every
\* worker returned, outputChan was closed and emptied, and the writer wrote
\* and flushed every pushed variant; no worker is left to push once the
\* channel is closed.
C8_CompletionAfterDrain ==
    /\ mainPc = "exited" =>
          /\ scanned = numWords
          /\ \A w \in 1..numWords : worker[w] = "done"
          /\ wg = 0 /\ closed /\ outputChan = <<>>
          /\ sinkPc = "done" /\ buffered = <<>>
          /\ AsSet(flushed) = UNION {PushedBy(w) : w \in WordIds}
          /\ Len(flushed) = Cardinality(AsSet(flushed))
    /\ closed => \A w \in WordIds : worker[w] \in {"none", "done"}
    /\ closed => \A w \in WordIds : worker[w] = "none" => w > numWords

\* C8 witness: main has exited after two workers pushed variants.
C8_Witness ==
    /\ mainPc = "exited" /\ numWords = 2
    /\ \A w \in 1..2 : sent[w] >= 1
    /\ crashed = "no"
    /\ Len(flushed) >= 2

\* C9: at most threads tasks are in flight; every permit held belongs to a
\* worker in flight or to the dispatcher between acquiring it and starting
\* the worker, so a worker starts only on an acquired permit and gives back
\* exactly one.
C9_InFlightBounded ==
    mainPc # "off" =>
        /\ Cardinality(InFlight) <= threads
        /\ sem <= threads
        /\ sem = Cardinality(InFlight) + (IF mainPc \in {"add", "go"} THEN 1 ELSE 0)

\* C9 witness: every permit is held by a running worker while the dispatcher
\* waits for one with a word in hand.
C9_Witness ==
    /\ mainPc = "acquire" /\ threads >= 1
    /\ Cardinality({w \in WordIds : worker[w] = "run"}) = threads

====
